---- MODULE Spec2Model ----
(***************************************************************************)
(* The job lifecycle engine of zaark: Job (src/lib/job.js, the class that  *)
(* keeps a `state` field), the timer helpers of src/lib/util.js and the    *)
(* Manager registry (src/unnamed/part_002).                                *)
(*                                                                         *)
(* JavaScript runs a handler to completion, so one action is one handler   *)
(* or one continuation of the async `start` between two awaits.  Hooks and *)
(* adapter calls (launch, newPage, reload, close) are external: each       *)
(* completion picks its outcome nondeterministically.                      *)
(***************************************************************************)
EXTENDS Integers, Sequences, FiniteSets, TLC

\* ------------------------------------------------------------------ bounds
MaxJobs     == 2    \* job identifiers available (explicit adds and successors)
MaxTime     == 1    \* the clock runs 0..MaxTime
MaxRuns     == 2    \* invocations of start() one job accepts (restart)
MaxAttempts == 2    \* largest scheduling.attempts a config carries
MaxRecv     == 2    \* calls of recvInbound one job accepts
MaxTimers   == 2    \* start timers one job arms (construction and edits)

\* The loop index is capped one above the largest finite attempt bound, so a
\* run whose bound is Infinity goes further than any finite one.
MaxIter == MaxAttempts + 1

NoWhen == -1        \* scheduling.when absent (undefined / null)
Inf    == 1000000   \* attempts = Infinity (job.js:448)

VARIABLES
  jobs,        \* sequence of Job objects; the index is the job's id
  registry,    \* Manager.jobs: ids in insertion order
  subscribed,  \* ids whose 'state'/'next' events the Manager listens to
  now,         \* the clock
  last,        \* what the last handler was, what it threw and what it emitted
  stopAccepted, \* history: the jobs on which a stop() took effect
  everRemoved  \* history: the jobs that have reached state removed

vars == <<jobs, registry, subscribed, now, last, stopAccepted, everRemoved>>

\* ------------------------------------------------------------------ configs
\* every.unit values the recurrence switch recognises, in clock ticks
\* (one tick = one minute).
Units == {"minute", "week"}

\* A validated config (Config.from) with its `browser` and `scheduling`
\* sections: scheduling.when, every.number, every.unit, attempts, delay,
\* timeout; `reporting` tells whether a reporting sink (discord or slack) is
\* configured.
Base == [when |-> NoWhen, number |-> 0, unit |-> "", attempts |-> MaxAttempts,
         delay |-> 0, timeout |-> 0, reporting |-> FALSE]

Configs ==
  { [Base EXCEPT !.when = w, !.attempts = a, !.timeout = t] :
       w \in {NoWhen} \cup (0..MaxTime), a \in 0..MaxAttempts, t \in {0, 1} }
  \cup { [Base EXCEPT !.when = w, !.number = 1, !.unit = u, !.attempts = 0] :
       w \in {NoWhen, 1}, u \in Units }
  \cup { [Base EXCEPT !.delay = 1] }

\* A script, as the set of top-level functions it defines.
HookNames   == {"setup", "action", "finalize"}
PlainScript == {"action"}
Scripts     == {PlainScript, {"monitor", "action"}}

\* ------------------------------------------------------------------ values
States == {"created", "scheduled", "running", "stopped", "done", "removed"}

\* What a handler works on: the heap it may change, the events it emitted,
\* the exception it is propagating ("" = none), the HTTP status it responded
\* with (0 = no response) and, for a continuation of start(), how the call it
\* awaited settled.
World == [jobs |-> jobs, registry |-> registry, subscribed |-> subscribed,
          emitted |-> <<>>, exc |-> "", resp |-> 0, out |-> ""]

throw(w, msg) == [w EXCEPT !.exc = msg]

emit(w, j, type, arg) ==
  [w EXCEPT !.emitted = Append(@, [job |-> j, type |-> type, arg |-> arg])]

\* Job.log: the entry is pushed on `logs` and emitted as 'log' in one call.
\* Nothing reads `logs` back, so the entry is kept as the emitted event only.
\* With a reporting sink configured, a request to it is started and not
\* awaited.
log(w, j, text) ==
  LET w1 == emit(w, j, "log", text)
  IN  IF w.jobs[j].cfg.reporting
        THEN [w1 EXCEPT !.jobs[j].deliveries = @ + 1] ELSE w1

RemoveId(seq, j) == SelectSeq(seq, LAMBDA x : x # j)

InSeq(seq, x) == \E i \in 1..Len(seq) : seq[i] = x

\* Mutant of handleState: the listener deletes nothing.
handleState_NoDelete(w, j, s) == w

\* Manager.addJob handleState: a 'state' event of 'removed' deletes the id.
handleState(w, j, s) ==
  IF s = "removed" /\ j \in w.subscribed
    THEN [w EXCEPT !.registry = RemoveId(@, j)]
    ELSE w

\* Map.set: an id already present keeps its place.
registrySet(w, j) ==
  IF InSeq(w.registry, j) THEN w ELSE [w EXCEPT !.registry = Append(@, j)]

\* Manager.addJob handleNext / the listeners addJob attaches itself.
handleNext(w, k) ==
  registrySet([w EXCEPT !.subscribed = @ \cup {k}], k)

\* ------------------------------------------------------------------ dates
\* util.date: a Date is returned as it is (the same object), an empty
\* template gives the current instant.
date(arg) == IF arg = NoWhen THEN now ELSE arg

UnitTicks(unit) ==
  CASE unit = "minute" -> 1
    [] unit = "hour"   -> 60
    [] unit = "day"    -> 1440
    [] unit = "week"   -> 7 * 1440
    [] OTHER           -> 0

\* The switch of Job.handleBegin: weeks are number * 7 days.
advance(when, number, unit) == when + number * UnitTicks(unit)

\* ------------------------------------------------------------------ Job
NewJob ==
  [state |-> "created", cfg |-> Base, startFn |-> "proto", unsched |-> 0,
   timers |-> <<>>, begun |-> FALSE, browser |-> 0, page |-> FALSE,
   sessions |-> <<>>, runs |-> <<>>, script |-> {}, hooks |-> {},
   recvs |-> <<>>, deliveries |-> 0]

running(w, j) == w.jobs[j].state = "running"
stopped(w, j) == w.jobs[j].state = "stopped"
created(w, j) == w.jobs[j].state = "created"

\* Job.changeState, with the Manager's 'state' listener.  The constructor's
\* own listener acts on 'running' only: handleBeginListener, called by start.
changeState(w, j, s) ==
  handleState(emit([w EXCEPT !.jobs[j].state = s], j, "state", s), j, s)

\* Mutant of schedule: the state is left as it was.
schedule_NoStateChange(w, j, when) ==
  LET job == w.jobs[j]
      tm  == [at |-> when, fn |-> job.startFn, st |-> "armed"]
  IN  IF when - now < 0 THEN throw(w, "Cannot schedule in the past")
      ELSE [w EXCEPT !.jobs[j].timers  = Append(@, tm),
                     !.jobs[j].startFn = "throw",
                     !.jobs[j].unsched = Len(job.timers) + 1]

\* Mutant of schedule: start is not replaced by the thrower.
schedule_KeepsStart(w, j, when) ==
  LET job == w.jobs[j]
      tm  == [at |-> when, fn |-> job.startFn, st |-> "armed"]
      w1  == [w EXCEPT !.jobs[j].timers  = Append(@, tm),
                       !.jobs[j].unsched = Len(job.timers) + 1]
  IN  IF when - now < 0 THEN throw(w, "Cannot schedule in the past")
      ELSE changeState(w1, j, "scheduled")

\* util.schedule + Job.schedule: arm a timer on the current `start`, replace
\* start by a thrower and unschedule by a canceller of this timer.
schedule(w, j, when) ==
  LET job == w.jobs[j]
      tm  == [at |-> when, fn |-> job.startFn, st |-> "armed"]
      w1  == [w EXCEPT !.jobs[j].timers  = Append(@, tm),
                       !.jobs[j].startFn = "throw",
                       !.jobs[j].unsched = Len(job.timers) + 1]
  IN  IF when - now < 0 THEN throw(w, "Cannot schedule in the past")
      ELSE changeState(w1, j, "scheduled")

\* Job.setConfig.
setConfig(w, j, cfg) ==
  LET w1 == [w EXCEPT !.jobs[j].cfg = cfg]
  IN  IF cfg.when # NoWhen THEN schedule(w1, j, date(cfg.when)) ELSE w1

\* Job.setScript: the script's setup, action and finalize replace the job's
\* own; no other binding of the script is looked at.
setScript(w, j, script) ==
  [w EXCEPT !.jobs[j].script = script,
            !.jobs[j].hooks  = script \cap HookNames]

\* new Job(config, script): the object exists only if the constructor returns.
construct(w, cfg, script) ==
  LET k  == Len(w.jobs) + 1
      w1 == setConfig([w EXCEPT !.jobs = Append(@, NewJob)], k, cfg)
  IN  IF w1.exc # "" THEN throw(w, w1.exc) ELSE setScript(w1, k, script)

\* Job.handleBegin: compute the next occurrence, construct it, emit 'next'
\* (the Manager's once-listener registers it).  The Date that util.date returns
\* for an existing `when` is the config's own object, so advancing it advances
\* this job's config too.
handleBegin(w, j) ==
  LET cfg      == w.jobs[j].cfg
      interval == cfg.number # 0 /\ cfg.unit # ""
      when     == advance(date(cfg.when), cfg.number, cfg.unit)
      w1       == IF cfg.when = NoWhen THEN w
                  ELSE [w EXCEPT !.jobs[j].cfg.when = when]
      k        == Len(w.jobs) + 1
      w2       == construct(w1, [cfg EXCEPT !.when = when], w.jobs[j].script)
      w3       == emit(w2, j, "next", k)
  IN  IF ~interval THEN w
      ELSE IF w2.exc # "" THEN w2
      ELSE IF j \in w3.subscribed THEN handleNext(w3, k)
      ELSE w3

\* The constructor's 'state' listener, for state 'running': handleBegin, then
\* the listener removes itself.
handleBeginListener(w, j) ==
  LET w1 == handleBegin(w, j)
  IN  IF w.jobs[j].begun THEN w
      ELSE IF w1.exc # "" THEN w1
      ELSE [w1 EXCEPT !.jobs[j].begun = TRUE]

\* Manager.addJob.
addJobW(w, cfg, script) ==
  LET k  == Len(w.jobs) + 1
      w1 == construct(w, cfg, script)
  IN  IF w1.exc # "" THEN w1 ELSE handleNext(w1, k)

\* ------------------------------------------------------------------ a run
\* One invocation of the async start(): where it is suspended (pc), the loop
\* index, the attempt bound (-1 until `let attempts` is reached), the timeout
\* watchdog, the session finish() is closing, and the action invocations so
\* far: how many, the index each was passed, whether each one returned falsy.
\* `mons` counts the invocations of a monitor hook: start() contains none.
\* `reloads` counts the calls of page.reload(), `setups` and `finals` those of
\* setup() and finalize(); `failed` names the catch block the run went through.
NewRun == [pc |-> "launch", i |-> 0, attempts |-> -1, wd |-> "none", acts |-> 0,
           closing |-> 0, args |-> <<>>, allFalse |-> TRUE, mons |-> 0,
           reloads |-> 0, setups |-> 0, finals |-> 0, failed |-> ""]

setRun(w, j, r, field, v) == [w EXCEPT !.jobs[j].runs[r][field] = v]

\* The call of page.reload() that ends the loop body.
callReload(w, j, r) ==
  [w EXCEPT !.jobs[j].runs[r].reloads = @ + 1,
            !.jobs[j].runs[r].pc      = "reload"]

\* Job.finish after the session is closed (or when there is none).
finishTail(w, j, r) ==
  LET w1 == IF running(w, j) THEN changeState(w, j, "done") ELSE w
  IN  setRun(w1, j, r, "pc", "end")

\* Job.finish: close the session `browser` refers to, if any.
finish(w, j, r) ==
  IF w.jobs[j].browser # 0
    THEN setRun(setRun(w, j, r, "closing", w.jobs[j].browser), j, r, "pc", "close")
    ELSE finishTail(w, j, r)

\* After the for loop: clearTimeout, finalize unless stopped, finish.
afterLoop(w, j, r) ==
  LET w1 == IF w.jobs[j].runs[r].wd = "armed"
              THEN setRun(w, j, r, "wd", "cleared") ELSE w
  IN  IF ~stopped(w1, j)
        THEN [log(w1, j, "Ran action()") EXCEPT
                !.jobs[j].runs[r].finals = @ + 1,
                !.jobs[j].runs[r].pc     = "finalize"]
        ELSE finish(w1, j, r)

\* The call of action(i) in the loop body.
callAction(w, j, r) ==
  LET run == w.jobs[j].runs[r]
  IN  [w EXCEPT !.jobs[j].runs[r].acts = run.acts + 1,
                !.jobs[j].runs[r].args = Append(run.args, run.i),
                !.jobs[j].runs[r].pc   = "action"]

\* Mutant of loop: the bound is tested with <=.
loop_OffByOne(w, j, r) ==
  LET run == w.jobs[j].runs[r]
  IN  IF ~stopped(w, j) /\ run.i <= run.attempts
        THEN callAction(w, j, r)
        ELSE afterLoop(w, j, r)

\* The for condition `!this.stopped && i < attempts`, then the loop body.
loop(w, j, r) ==
  LET run == w.jobs[j].runs[r]
  IN  IF ~stopped(w, j) /\ run.i < run.attempts
        THEN callAction(w, j, r)
        ELSE afterLoop(w, j, r)

\* Job.start up to its first await.  An exception inside the async function
\* rejects the promise start() returns; the caller sees no throw.
startW(w, j) ==
  LET r  == Len(w.jobs[j].runs) + 1
      w0 == [w EXCEPT !.jobs[j].runs = Append(@, NewRun)]
      w1 == handleBeginListener(changeState(w0, j, "running"), j)
  IN  IF w1.exc # ""
        THEN setRun([w1 EXCEPT !.exc = ""], j, r, "pc", "rejected")
        ELSE log(w1, j, "Started")

\* Mutant of actionTruthy: the result of action is not looked at.
actionTruthy_Ignored(w, j, r) == callReload(w, j, r)

\* action(i) returned truthy: ++i, break.
actionTruthy(w, j, r) ==
  LET run == w.jobs[j].runs[r]
  IN  afterLoop(setRun(setRun(w, j, r, "allFalse", FALSE), j, r, "i", run.i + 1),
                j, r)

\* Mutant of actionFailed: an exception of action leaves the loop.
actionFailed_ThrowEnds(w, j, r, out) ==
  LET w0 == IF out = "throw" THEN setRun(w, j, r, "allFalse", FALSE) ELSE w
  IN  IF out = "throw"
        THEN afterLoop(log(w0, j, "action() failed"), j, r)
        ELSE IF ~stopped(w0, j) /\ w.jobs[j].cfg.delay # 0
               THEN setRun(w0, j, r, "pc", "sleep")
               ELSE callReload(w0, j, r)

\* action(i) returned falsy or threw: the catch logs unless the job is stopped;
\* then the delay, if any and not stopped, and the reload.
actionFailed(w, j, r, out) ==
  LET w0 == IF out = "throw" THEN setRun(w, j, r, "allFalse", FALSE) ELSE w
      w1 == IF out = "throw" /\ ~stopped(w, j)
              THEN log(w0, j, "action() failed") ELSE w0
  IN  IF ~stopped(w1, j) /\ w.jobs[j].cfg.delay # 0
        THEN setRun(w1, j, r, "pc", "sleep")
        ELSE callReload(w1, j, r)

\* Mutant of launchFailed: the catch block does not return.
launchFailed_GoesOn(w, j, r) ==
  setRun(setRun(log(w, j, "Failed to launch browser"), j, r, "failed", "launch"),
         j, r, "pc", "newPage")

\* puppeteer.launch rejected: log, finish, return.
launchFailed(w, j, r) ==
  finish(setRun(log(w, j, "Failed to launch browser"), j, r, "failed", "launch"),
         j, r)

\* Mutant of setupFailed: the catch block does not return.
setupFailed_GoesOn(w, j, r) ==
  loop(setRun(setRun(log(log(w, j, "setup() failed"), j, "Halting job"),
                     j, r, "failed", "setup"),
              j, r, "attempts", w.jobs[j].cfg.attempts),
       j, r)

\* setup() threw: two log entries, finish, return.
setupFailed(w, j, r) ==
  finish(setRun(log(log(w, j, "setup() failed"), j, "Halting job"),
                j, r, "failed", "setup"),
         j, r)

\* Mutant of finalizeFailed: the exception is not caught.
finalizeFailed_Uncaught(w, j, r) ==
  setRun(setRun(w, j, r, "failed", "finalize"), j, r, "pc", "rejected")

\* finalize() threw: two log entries, then finish as after a success.
finalizeFailed(w, j, r) ==
  finish(setRun(log(log(w, j, "finalize() failed"), j, "Halting job"),
                j, r, "failed", "finalize"),
         j, r)

\* The continuation of start() after the await it is suspended at, given the
\* outcome of what was awaited.
resume(w, j, r, out) ==
  LET job == w.jobs[j]
      run == job.runs[r]
      rejected == setRun(w, j, r, "pc", "rejected")
  IN  CASE run.pc = "launch" ->
             IF out = "ok"
               THEN setRun([w EXCEPT !.jobs[j].sessions = Append(@, "open"),
                                     !.jobs[j].browser = Len(job.sessions) + 1],
                           j, r, "pc", "newPage")
               ELSE launchFailed(w, j, r)
        [] run.pc = "newPage" ->
             IF out = "ok"
               THEN [w EXCEPT !.jobs[j].page = TRUE,
                              !.jobs[j].runs[r].setups = @ + 1,
                              !.jobs[j].runs[r].pc = "setup"]
               ELSE rejected
        [] run.pc = "setup" ->
             IF out = "ok"
               THEN LET timed == job.cfg.timeout # 0
                        w1 == setRun(w, j, r, "attempts",
                                     IF timed THEN Inf ELSE job.cfg.attempts)
                        w2 == IF timed THEN setRun(w1, j, r, "wd", "armed") ELSE w1
                    IN  loop(w2, j, r)
               ELSE setupFailed(w, j, r)
        [] run.pc = "action" ->
             IF out = "truthy" THEN actionTruthy(w, j, r)
             ELSE actionFailed(w, j, r, out)
        [] run.pc = "sleep" -> callReload(w, j, r)
        [] run.pc = "reload" ->
             IF out = "ok"
               THEN loop(setRun(w, j, r, "i", run.i + 1), j, r)
               ELSE rejected
        [] run.pc = "finalize" ->
             IF out = "ok"
               THEN finish(log(log(w, j, "Result"), j, "Completed"), j, r)
               ELSE finalizeFailed(w, j, r)
        [] run.pc = "close" ->
             IF out = "ok"
               THEN finishTail([w EXCEPT !.jobs[j].sessions[run.closing] = "closed"],
                               j, r)
               ELSE rejected
        [] OTHER -> w

Outcomes(pc) ==
  CASE pc = "action" -> {"truthy", "falsy", "throw"}
    [] pc = "sleep"  -> {"ok"}
    [] pc \in {"end", "rejected"} -> {}
    [] OTHER -> {"ok", "fail"}

\* ------------------------------------------------------------------ actions
Ids == 1..Len(jobs)

\* The handler ran: install its heap, record what it threw and emitted.
Apply(op, j, w) ==
  /\ jobs' = w.jobs
  /\ registry' = w.registry
  /\ subscribed' = w.subscribed
  /\ last' = [op |-> op, job |-> j, err |-> w.exc, emitted |-> w.emitted,
              resp |-> w.resp, out |-> w.out]
  /\ stopAccepted' = IF op = "stop" /\ running(World, j)
                       THEN stopAccepted \cup {j} ELSE stopAccepted
  /\ everRemoved' = everRemoved \cup
                      { k \in 1..Len(w.jobs) : w.jobs[k].state = "removed" }
  /\ UNCHANGED now

\* A first 'running' of a recurring job constructs a successor: it needs an id.
CanBegin(j) ==
  LET job == jobs[j]
  IN  \/ job.begun
      \/ ~(job.cfg.number # 0 /\ job.cfg.unit # "")
      \/ Len(jobs) < MaxJobs

Init ==
  /\ jobs = <<>>
  /\ registry = <<>>
  /\ subscribed = {}
  /\ now = 0
  /\ last = [op |-> "init", job |-> 0, err |-> "", emitted |-> <<>>, resp |-> 0,
             out |-> ""]
  /\ stopAccepted = {}
  /\ everRemoved = {}

\* Manager.addJob(config, script), while identifiers are left.
add(cfg, script) ==
  /\ Len(jobs) < MaxJobs
  /\ Apply("addJob", Len(jobs) + 1, addJobW(World, cfg, script))

\* The first Manager.addJob(config, script).
addJob(cfg, script) ==
  /\ Len(jobs) = 0
  /\ add(cfg, script)

\* job.start() called directly on a job that has not run yet: the prototype's
\* start, or the thrower that Job.schedule installed.
start(j) ==
  /\ Len(jobs[j].runs) = 0
  /\ CanBegin(j)
  /\ Apply("start", j,
           IF jobs[j].startFn = "throw"
             THEN throw(World, "Job already scheduled")
             ELSE startW(World, j))

\* A start timer fires: the function Job.schedule bound when it armed it.
timerFire(j, t) ==
  /\ jobs[j].timers[t].st = "armed"
  /\ now >= jobs[j].timers[t].at
  /\ Len(jobs[j].runs) < MaxRuns
  /\ CanBegin(j)
  /\ LET w == [World EXCEPT !.jobs[j].timers[t].st = "fired"]
     IN  Apply("timer", j,
               IF jobs[j].timers[t].fn = "throw"
                 THEN throw(w, "Job already scheduled")
                 ELSE startW(w, j))

\* Mutant of stopW: no test of `running`.
stopW_Unguarded(w, j) == changeState(w, j, "stopped")

\* Job.stop.
stopW(w, j) == IF running(w, j) THEN changeState(w, j, "stopped") ELSE w

stop(j) == Apply("stop", j, stopW(World, j))

\* Mutant of rmW: no test of `running`.
rmW_Unguarded(w, j) == changeState(w, j, "removed")

\* Job.rm.
rmW(w, j) == IF running(w, j) THEN w ELSE changeState(w, j, "removed")

rm(j) == Apply("rm", j, rmW(World, j))

\* clearTimeout: cancels an armed timer, does nothing to one that has fired.
clearTimeout(w, j, t) ==
  IF w.jobs[j].timers[t].st = "armed"
    THEN [w EXCEPT !.jobs[j].timers[t].st = "cleared"] ELSE w

\* Mutant of unscheduleW: the canceller removes the job, the timer stays.
unscheduleW_NoClear(w, j) ==
  IF w.jobs[j].unsched = 0 THEN throw(w, "No job scheduled") ELSE rmW(w, j)

\* job.unschedule(): the prototype's thrower, or the canceller Job.schedule
\* installed (clearTimeout, then rm).
unscheduleW(w, j) ==
  LET t == w.jobs[j].unsched
  IN  IF t = 0 THEN throw(w, "No job scheduled")
      ELSE rmW(clearTimeout(w, j, t), j)

unschedule(j) == Apply("unschedule", j, unscheduleW(World, j))

\* POST /inbound requests: the method, whether the body parses as JSON, and
\* whether its api-key is the server's.
Requests ==
  { [method |-> "POST", json |-> TRUE,  key |-> TRUE,  body |-> "body"],
    [method |-> "POST", json |-> TRUE,  key |-> FALSE, body |-> "body"],
    [method |-> "POST", json |-> FALSE, key |-> FALSE, body |-> "body"],
    [method |-> "GET",  json |-> TRUE,  key |-> TRUE,  body |-> "body"] }

respond(w, code) == [w EXCEPT !.resp = code]

\* Server.handleJobRequest for POST /jobs/<id>/edit with a body {config}, and
\* Server.handleEditJobRequest: a job that is not in the registry gives 404;
\* what setConfig throws is caught and answered with 400, after the config
\* was assigned.
handleEditJobRequest(w, j, cfg) ==
  LET w1 == setConfig(w, j, cfg)
  IN  IF ~InSeq(w.registry, j) THEN respond(w, 404)
      ELSE IF w1.exc # "" THEN respond([w1 EXCEPT !.exc = ""], 400)
      ELSE respond(w1, 200)

edit(j, cfg) ==
  /\ Len(jobs[j].timers) < MaxTimers
  /\ Apply("edit", j, handleEditJobRequest(World, j, cfg))

\* The 'inbound' events of one delivery, to the jobs `ids` in order.
InboundTo(ids, body) ==
  [i \in 1..Len(ids) |-> [job |-> ids[i], type |-> "inbound", arg |-> body]]

\* One call of recvInbound: the promise it returns (st, value), the once
\* listener on 'inbound' and the timeout timer (due at `at`).
NewRecv(timeout) ==
  [st |-> "pending", value |-> "", listener |-> TRUE, timer |-> "armed",
   at |-> now + timeout]

\* Mutant of settle: a promise that is settled is settled again.
settle_Again(rc, st, value) == [rc EXCEPT !.st = st, !.value = value]

\* Promise.race: the first of its two promises to settle settles it.
settle(rc, st, value) ==
  IF rc.st = "pending" THEN [rc EXCEPT !.st = st, !.value = value] ELSE rc

\* job.emit('inbound', body): every once listener of a recvInbound is removed
\* and resolves its promise with the event.
onInbound(job, body) ==
  [job EXCEPT !.recvs =
     [n \in 1..Len(job.recvs) |->
        IF job.recvs[n].listener
          THEN settle([job.recvs[n] EXCEPT !.listener = FALSE], "resolved", body)
          ELSE job.recvs[n]]]

\* this.jobs.forEach(job => job.emit('inbound', body)).
emitInbound(w, body) ==
  [w EXCEPT !.emitted = @ \o InboundTo(w.registry, body),
            !.jobs = [k \in 1..Len(w.jobs) |->
                        IF InSeq(w.registry, k) THEN onInbound(w.jobs[k], body)
                        ELSE w.jobs[k]]]

\* Mutant of handleInboundRequest: only running jobs get the event.
handleInboundRequest_RunningOnly(w, req) ==
  IF req.method # "POST" THEN respond(w, 405)
  ELSE IF ~req.json \/ ~req.key THEN respond(w, 400)
  ELSE respond([w EXCEPT !.emitted =
                  @ \o InboundTo(SelectSeq(w.registry,
                                           LAMBDA k : w.jobs[k].state = "running"),
                                 req.body)],
               200)

\* Server.handleInboundRequest, once the body is read: emit 'inbound' on every
\* job of the registry, in the Map's order.
handleInboundRequest(w, req) ==
  IF req.method # "POST" THEN respond(w, 405)
  ELSE IF ~req.json \/ ~req.key THEN respond(w, 400)
  ELSE respond(emitInbound(w, req.body), 200)

inbound(req) == Apply("inbound", 0, handleInboundRequest(World, req))

\* job.recvInbound(timeout), called by a hook.
recvInbound(j, timeout) ==
  /\ Len(jobs[j].recvs) < MaxRecv
  /\ Apply("recvInbound", j,
           [World EXCEPT !.jobs[j].recvs = Append(@, NewRecv(timeout))])

\* The timeout timer of a recvInbound fires: its promise rejects.
recvTimeout(j, n) ==
  /\ jobs[j].recvs[n].timer = "armed"
  /\ now >= jobs[j].recvs[n].at
  /\ Apply("recvTimeout", j,
           [World EXCEPT !.jobs[j].recvs[n] =
              settle([@ EXCEPT !.timer = "fired"], "rejected", "Error")])

\* Mutant of requestSettled: a failed delivery stops the job.
requestSettled_Stops(w, j, out) ==
  LET w1 == [w EXCEPT !.jobs[j].deliveries = @ - 1]
  IN  IF out = "ok" THEN w1
      ELSE changeState(emit(w1, j, "error", "delivery"), j, "stopped")

\* A util.request started by Job.log settles: a rejection is caught and
\* emitted as 'error'.  The Manager listens to 'error' (console.error); on a
\* job nobody listens to, emit('error') throws inside the catch handler.
requestSettled(w, j, out) ==
  LET w1 == [w EXCEPT !.jobs[j].deliveries = @ - 1]
      w2 == emit(w1, j, "error", "delivery")
  IN  IF out = "ok" THEN w1
      ELSE IF j \in w.subscribed THEN w2
      ELSE throw(w2, "Unhandled error")

deliver(j, out) ==
  /\ jobs[j].deliveries > 0
  /\ Apply("deliver", j, requestSettled(World, j, out))

\* An awaited call of run r settles and start() continues to its next await.
step(j, r, out) ==
  /\ out \in Outcomes(jobs[j].runs[r].pc)
  /\ jobs[j].runs[r].pc = "reload" => jobs[j].runs[r].i < MaxIter
  /\ Apply("step", j, [resume(World, j, r, out) EXCEPT !.out = out])

\* The timeout watchdog of run r fires: `this.stopped = true` on a class whose
\* `stopped` is a getter without a setter throws a TypeError in strict code,
\* before the log call.
watchdog(j, r) ==
  /\ jobs[j].runs[r].wd = "armed"
  /\ Apply("watchdog", j,
           throw(setRun(World, j, r, "wd", "fired"), "TypeError"))

\* job.start() called again on a job that has run before and was never
\* scheduled (a scheduled job keeps the thrower).
restart(j) ==
  /\ Len(jobs[j].runs) >= 1
  /\ Len(jobs[j].runs) < MaxRuns
  /\ jobs[j].startFn = "proto"
  /\ Apply("start", j, startW(World, j))

\* Time passes, up to `limit`.
tickTo(limit) ==
  /\ now < limit
  /\ now' = now + 1
  /\ last' = [op |-> "tick", job |-> 0, err |-> "", emitted |-> <<>>, resp |-> 0,
             out |-> ""]
  /\ UNCHANGED <<jobs, registry, subscribed, stopAccepted, everRemoved>>

tick == tickTo(MaxTime)

Next ==
  \/ \E cfg \in Configs : addJob(cfg, PlainScript)
  \/ \E j \in Ids : start(j)
  \/ \E j \in Ids : \E t \in 1..Len(jobs[j].timers) : timerFire(j, t)
  \/ \E j \in Ids : stop(j)
  \/ \E j \in Ids : rm(j)
  \/ \E j \in Ids : unschedule(j)
  \/ \E j \in Ids : \E r \in 1..Len(jobs[j].runs) :
        \E out \in {"ok", "fail", "truthy", "falsy", "throw"} : step(j, r, out)
  \/ \E j \in Ids : \E r \in 1..Len(jobs[j].runs) : watchdog(j, r)
  \/ tick

Spec == Init /\ [][Next]_vars

\* The same, with start() called more than once on a job.
RestartConfigs == { [Base EXCEPT !.attempts = a] : a \in {0, 1} }

NextRestart ==
  \/ \E cfg \in RestartConfigs : addJob(cfg, PlainScript)
  \/ \E j \in Ids : start(j)
  \/ \E j \in Ids : restart(j)
  \/ \E j \in Ids : stop(j)
  \/ \E j \in Ids : rm(j)
  \/ \E j \in Ids : \E r \in 1..Len(jobs[j].runs) :
        \E out \in {"ok", "fail", "truthy", "falsy", "throw"} : step(j, r, out)

SpecRestart == Init /\ [][NextRestart]_vars

\* Recurring jobs, with a clock that runs one tick further, so that the timer
\* of a job due at 0 can fire more than one minute late.
RecurConfigs ==
  { [Base EXCEPT !.when = w, !.number = 1, !.unit = u, !.attempts = 0] :
       w \in {NoWhen} \cup (0..MaxTime), u \in Units }

NextRecur ==
  \/ \E cfg \in RecurConfigs : addJob(cfg, PlainScript)
  \/ \E j \in Ids : start(j)
  \/ \E j \in Ids : \E t \in 1..Len(jobs[j].timers) : timerFire(j, t)
  \/ \E j \in Ids : stop(j)
  \/ \E j \in Ids : rm(j)
  \/ \E j \in Ids : unschedule(j)
  \/ \E j \in Ids : \E r \in 1..Len(jobs[j].runs) :
        \E out \in {"ok", "fail", "truthy", "falsy", "throw"} : step(j, r, out)
  \/ tickTo(MaxTime + 1)

SpecRecur == Init /\ [][NextRecur]_vars

\* Many jobs added explicitly, their handlers interleaved; every adapter call
\* and hook succeeds.
ManyConfigs ==
  { [Base EXCEPT !.attempts = 0],
    [Base EXCEPT !.number = 1, !.unit = "week", !.attempts = 0] }

NextMany ==
  \/ \E cfg \in ManyConfigs : add(cfg, PlainScript)
  \/ \E j \in Ids : start(j)
  \/ \E j \in Ids : stop(j)
  \/ \E j \in Ids : rm(j)
  \/ \E j \in Ids : \E r \in 1..Len(jobs[j].runs) : step(j, r, "ok")

SpecMany == Init /\ [][NextMany]_vars

\* The same, with inbound requests arriving at the server.
NextInbound ==
  \/ \E cfg \in ManyConfigs : add(cfg, PlainScript)
  \/ \E j \in Ids : start(j)
  \/ \E j \in Ids : stop(j)
  \/ \E j \in Ids : rm(j)
  \/ \E j \in Ids : \E r \in 1..Len(jobs[j].runs) : step(j, r, "ok")
  \/ \E req \in Requests : inbound(req)

SpecInbound == Init /\ [][NextInbound]_vars

\* One job whose hooks wait for inbound events.
RecvRequests ==
  { [method |-> "POST", json |-> TRUE, key |-> k, body |-> b] :
       k \in BOOLEAN, b \in {"a", "b"} }

NextRecv ==
  \/ addJob(Base, PlainScript)
  \/ \E j \in Ids : rm(j)
  \/ \E j \in Ids : \E timeout \in 0..MaxTime : recvInbound(j, timeout)
  \/ \E j \in Ids : \E n \in 1..Len(jobs[j].recvs) : recvTimeout(j, n)
  \/ \E req \in RecvRequests : inbound(req)
  \/ tick

SpecRecv == Init /\ [][NextRecv]_vars

\* One job with a reporting sink, whose deliveries may fail.
ReportConfigs == { [Base EXCEPT !.reporting = TRUE, !.attempts = 1] }

NextReport ==
  \/ \E cfg \in ReportConfigs : addJob(cfg, PlainScript)
  \/ \E j \in Ids : start(j)
  \/ \E j \in Ids : stop(j)
  \/ \E j \in Ids : \E r \in 1..Len(jobs[j].runs) :
        \E out \in {"ok", "fail", "truthy", "falsy", "throw"} : step(j, r, out)
  \/ \E j \in Ids : recvInbound(j, 0)
  \/ \E j \in Ids : \E n \in 1..Len(jobs[j].recvs) : recvTimeout(j, n)
  \/ \E j \in Ids : \E out \in {"ok", "fail"} : deliver(j, out)

SpecReport == Init /\ [][NextReport]_vars

\* Jobs whose script may define a monitor function.
MonitorConfigs == { [Base EXCEPT !.attempts = a] : a \in 0..MaxAttempts }

NextMonitor ==
  \/ \E cfg \in MonitorConfigs : \E script \in Scripts : addJob(cfg, script)
  \/ \E j \in Ids : start(j)
  \/ \E j \in Ids : stop(j)
  \/ \E j \in Ids : \E r \in 1..Len(jobs[j].runs) :
        \E out \in {"ok", "fail", "truthy", "falsy", "throw"} : step(j, r, out)

SpecMonitor == Init /\ [][NextMonitor]_vars

\* Jobs that are edited through the server: setConfig on an existing job.
EditConfigs ==
  { [Base EXCEPT !.when = w, !.attempts = 0] : w \in {NoWhen} \cup (0..MaxTime) }

NextEdit ==
  \/ \E cfg \in EditConfigs : addJob(cfg, PlainScript)
  \/ \E j \in Ids : \E cfg \in EditConfigs : edit(j, cfg)
  \/ \E j \in Ids : start(j)
  \/ \E j \in Ids : \E t \in 1..Len(jobs[j].timers) : timerFire(j, t)
  \/ \E j \in Ids : stop(j)
  \/ \E j \in Ids : \E r \in 1..Len(jobs[j].runs) : step(j, r, "ok")
  \/ tick

SpecEdit == Init /\ [][NextEdit]_vars

\* ------------------------------------------------------------------ claims
Runs(j) == 1..Len(jobs[j].runs)

Settled(run) == run.pc \in {"end", "rejected"}

Edges ==
  { <<"created", "scheduled">>, <<"created", "running">>,
    <<"scheduled", "running">>, <<"running", "stopped">>,
    <<"running", "done">>, <<"created", "removed">>,
    <<"scheduled", "removed">> }

\* C1: every change of a job's state is one of the edges created->scheduled,
\* created->running, scheduled->running (by the timer only), running->stopped,
\* running->done, created->removed, scheduled->removed.
C1_OnlyLifecycleEdges ==
  [][\A j \in Ids :
       jobs'[j].state # jobs[j].state =>
         /\ <<jobs[j].state, jobs'[j].state>> \in Edges
         /\ (jobs[j].state = "scheduled" /\ jobs'[j].state = "running")
              => last'.op = "timer"]_vars

\* C2: once a job's state is done or removed, no later operation changes it.
C2_TerminalNeverExited ==
  [][\A j \in Ids :
       jobs[j].state \in {"done", "removed"} => jobs'[j].state = jobs[j].state]_vars

\* C3: every job that entered running reaches done or removed: when its run
\* is over, however it ended, the job is in a terminal state.
C3_RunEndsTerminal ==
  \A j \in Ids : \A r \in Runs(j) :
    Settled(jobs[j].runs[r]) => jobs[j].state \in {"done", "removed"}

\* C4: when the timeout watchdog of a run fires, the stop flag is set, and
\* after it has fired the run begins no further action invocation.
C4_WatchdogStops ==
  [][\A j \in Ids : \A r \in Runs(j) :
       /\ (jobs[j].runs[r].wd = "armed" /\ jobs'[j].runs[r].wd = "fired")
            => jobs'[j].state = "stopped"
       /\ jobs[j].runs[r].wd = "fired"
            => jobs'[j].runs[r].acts = jobs[j].runs[r].acts]_vars

\* C5: after stop() took effect on a running job, its run begins no further
\* action invocation, whatever is called on the job afterwards.
C5_NoActionAfterStop ==
  [][\A j \in Ids : \A r \in Runs(j) :
       j \in stopAccepted => jobs'[j].runs[r].acts = jobs[j].runs[r].acts]_vars

\* C6: a job constructed without scheduling.when is created and has no timer;
\* one constructed with a scheduling.when (not in the past, or the constructor
\* throws) is scheduled, with one armed timer for that instant bound to start.
C6_ConstructedState ==
  [][\A k \in (Len(jobs) + 1)..Len(jobs') :
       LET job == jobs'[k]
       IN  /\ job.cfg.when = NoWhen
                => job.state = "created" /\ job.timers = <<>>
           /\ job.cfg.when # NoWhen
                => /\ job.cfg.when >= now
                   /\ job.state = "scheduled"
                   /\ job.timers =
                        <<[at |-> job.cfg.when, fn |-> "proto", st |-> "armed"]>>]_vars

C6_Witness ==
  /\ last.op = "addJob" /\ last.err = ""
  /\ jobs[last.job].cfg.when > now
  /\ jobs[last.job].state = "scheduled"
  /\ jobs[last.job].timers[1].st = "armed"

\* C7: start() called on a scheduled job throws and changes nothing: the state,
\* the timer, the runs and sessions, the registry; nothing is emitted.
C7_StartOnScheduledFails ==
  [][\A j \in Ids :
       (last'.op = "start" /\ last'.job = j /\ jobs[j].state = "scheduled")
         => /\ last'.err = "Job already scheduled"
            /\ last'.emitted = <<>>
            /\ jobs' = jobs
            /\ registry' = registry]_vars

C7_Witness ==
  /\ last.op = "start" /\ last.err = "Job already scheduled"
  /\ jobs[last.job].state = "scheduled"
  /\ jobs[last.job].timers[1].st = "armed"
  /\ jobs[last.job].sessions = <<>>

\* C8: unschedule() on a job that is not scheduled throws, changes no state
\* and emits nothing.
C8_UnscheduleElsewhereFails ==
  [][\A j \in Ids :
       (last'.op = "unschedule" /\ last'.job = j /\ jobs[j].state # "scheduled")
         => /\ last'.err # ""
            /\ last'.emitted = <<>>
            /\ jobs' = jobs
            /\ registry' = registry]_vars

\* The job was unscheduled before its timer fired: removed, never run, its
\* timer cancelled.
Cancelled(js, j) ==
  /\ js[j].state = "removed"
  /\ js[j].runs = <<>>
  /\ \A t \in 1..Len(js[j].timers) : js[j].timers[t].st = "cleared"
  /\ js[j].timers # <<>>

C10_StopElsewhereNoop ==
  [][\A j \in Ids :
       (last'.op = "stop" /\ last'.job = j /\ jobs[j].state # "running")
         => /\ last'.emitted = <<>>
            /\ last'.err = ""
            /\ jobs' = jobs
            /\ registry' = registry]_vars

C10_Witness ==
  /\ last.op = "stop" /\ last.emitted = <<>>
  /\ jobs[last.job].state = "done"

\* C11: rm() on a running job changes nothing: the state stays running, no
\* event is emitted and the job stays in the registry.
C11_RmWhileRunningNoop ==
  [][\A j \in Ids :
       (last'.op = "rm" /\ last'.job = j /\ jobs[j].state = "running")
         => /\ jobs'[j].state = "running"
            /\ last'.emitted = <<>>
            /\ last'.err = ""
            /\ jobs' = jobs
            /\ registry' = registry
            /\ InSeq(registry, j) => InSeq(registry', j)]_vars

C11_Witness ==
  /\ last.op = "rm" /\ last.emitted = <<>>
  /\ jobs[last.job].state = "running"
  /\ jobs[last.job].sessions # <<>>
  /\ InSeq(registry, last.job)

\* C12: a run of a job with attempts = N and no timeout, no stop request and
\* an action that returns false every time passes action the indexes 0, 1, ...
\* in order, never more than N of them, and has invoked it exactly N times
\* when its loop is over.
C12_ActionInvokedNTimes ==
  \A j \in Ids : \A r \in Runs(j) :
    LET run == jobs[j].runs[r]
        N   == jobs[j].cfg.attempts
    IN  (jobs[j].cfg.timeout = 0 /\ j \notin stopAccepted /\ run.allFalse)
          => /\ \A k \in 1..Len(run.args) : run.args[k] = k - 1
             /\ Len(run.args) = run.acts
             /\ run.acts <= N
             /\ (run.attempts # -1 /\ run.pc \in {"finalize", "close", "end"})
                  => run.acts = N

C12_Witness ==
  \E j \in Ids : \E r \in Runs(j) :
    /\ jobs[j].cfg.timeout = 0 /\ j \notin stopAccepted
    /\ jobs[j].cfg.attempts = MaxAttempts
    /\ jobs[j].runs[r].allFalse
    /\ jobs[j].runs[r].pc = "end"
    /\ jobs[j].runs[r].args = [k \in 1..MaxAttempts |-> k - 1]

\* C13: in a run of a job whose script defines monitor, action is invoked only
\* after monitor has been invoked (and returned truthy), and it is invoked at
\* most once, whatever attempts remain.
C13_MonitorGatesAction ==
  \A j \in Ids : \A r \in Runs(j) :
    "monitor" \in jobs[j].script
      => /\ jobs[j].runs[r].acts >= 1 => jobs[j].runs[r].mons >= 1
         /\ jobs[j].runs[r].acts <= 1

Recurring(job) == job.cfg.number # 0 /\ job.cfg.unit # ""

\* The positions of the 'next' events of job j among the events `es`.
NextEvents(es, j) ==
  { i \in 1..Len(es) : es[i].type = "next" /\ es[i].job = j }

\* C14: a recurring job with when = T emits a next event at its first
\* transition into running, exactly one, and at no other time; the job the
\* event carries is a new one with the same script, when = T advanced by
\* number units, scheduled and not started.
C14_OneNextAtFirstRun ==
  [][\A j \in Ids :
       (Recurring(jobs[j]) /\ jobs[j].cfg.when # NoWhen)
         => LET es    == last'.emitted
                first == /\ jobs[j].runs = <<>>
                         /\ jobs[j].state # "running"
                         /\ jobs'[j].state = "running"
            IN  /\ ~first => NextEvents(es, j) = {}
                /\ first =>
                     /\ Cardinality(NextEvents(es, j)) = 1
                     /\ \A i \in NextEvents(es, j) :
                          LET k == es[i].arg
                          IN  /\ k = Len(jobs) + 1 /\ Len(jobs') = k
                              /\ jobs'[k].script = jobs[j].script
                              /\ jobs'[k].cfg.when =
                                   advance(jobs[j].cfg.when, jobs[j].cfg.number,
                                           jobs[j].cfg.unit)
                              /\ jobs'[k].state = "scheduled"
                              /\ jobs'[k].runs = <<>>]_vars

\* C15: whenever a recurring job the Manager listens to (added explicitly, or
\* itself a successor: the k-th of a chain, any k) first enters running, its
\* successor exists, is in the registry, and the Manager listens to it.
C15_ChainContinues ==
  [][\A j \in Ids :
       ( /\ Recurring(jobs[j]) /\ j \in subscribed
         /\ jobs[j].runs = <<>>
         /\ jobs[j].state # "running" /\ jobs'[j].state = "running" )
         => LET k == Len(jobs) + 1
            IN  /\ Len(jobs') = k
                /\ InSeq(registry', k)
                /\ k \in subscribed']_vars

SeqSet(seq) == { seq[i] : i \in 1..Len(seq) }

\* C16: the registry holds exactly the jobs that were registered (by add or by
\* chaining) and have not reached state removed, each identifier once; a job
\* in state removed is not in it.
C16_RegistryExact ==
  /\ SeqSet(registry) = subscribed \ everRemoved
  /\ Cardinality(SeqSet(registry)) = Len(registry)
  /\ \A j \in Ids : jobs[j].state = "removed" => ~InSeq(registry, j)

C16_Witness ==
  /\ Len(jobs) >= 2
  /\ jobs[1].begun /\ jobs[1].state = "removed"
  /\ jobs[2].state = "scheduled"
  /\ registry = <<2>>
  /\ subscribed = {1, 2}

\* C17: a job the Manager added that has reached done is no longer in the
\* registry, while a successor it spawned stays registered until it is removed.
C17_DoneEvicted ==
  \A j \in Ids :
    /\ (j \in subscribed /\ jobs[j].state = "done") => ~InSeq(registry, j)
    /\ (j \in subscribed /\ j \notin everRemoved /\ jobs[j].state = "scheduled")
         => InSeq(registry, j)

\* C18: a running job is in the registry it was added to: a running job is
\* never evicted and an evicted job never becomes running.
C18_RunningIsRegistered ==
  \A j \in Ids :
    (j \in subscribed /\ jobs[j].state = "running") => InSeq(registry, j)

\* The sessions job j has launched and not yet closed.
OpenSessions(j) ==
  { n \in 1..Len(jobs[j].sessions) : jobs[j].sessions[n] = "open" }

\* C19: a job never has more than one session launched and not yet closed,
\* also when start() is called again on it.
C19_OneSession ==
  \A j \in Ids : Cardinality(OpenSessions(j)) <= 1

\* The jobs that are sent an 'inbound' event among the events `es`.
InboundJobs(es) ==
  { es[i].job : i \in { n \in 1..Len(es) : es[n].type = "inbound" } }

\* C20: an inbound request the server accepts emits one inbound event to every
\* job that is in the registry at that time, whatever its state, and none to
\* a job that is not (an evicted one).
C20_InboundToRegistered ==
  [][(last'.op = "inbound" /\ last'.resp = 200)
       => /\ InboundJobs(last'.emitted) = SeqSet(registry)
          /\ Len(last'.emitted) = Len(registry)
          /\ \A j \in Ids : ~InSeq(registry, j) => j \notin InboundJobs(last'.emitted)
          /\ registry' = registry /\ jobs' = jobs]_vars

C20_Witness ==
  /\ last.op = "inbound" /\ last.resp = 200
  /\ Len(jobs) >= 2
  /\ jobs[1].state = "removed" /\ jobs[2].state = "done"
  /\ last.emitted = <<[job |-> 2, type |-> "inbound", arg |-> "body"]>>

C23_ConfigImmutable ==
  [][\A j \in Ids : jobs'[j].cfg = jobs[j].cfg]_vars

\* The loop of the run is over and start() went on normally.
PastLoop(run) == run.attempts # -1 /\ run.pc \in {"finalize", "close", "end"}

\* C24: a run that made k >= 1 action invocations and whose loop is over has
\* reloaded the page k - 1 times: between attempts only, not after the last.
C24_ReloadBetweenAttempts ==
  \A j \in Ids : \A r \in Runs(j) :
    LET run == jobs[j].runs[r]
    IN  (PastLoop(run) /\ run.acts >= 1) => run.reloads = run.acts - 1

\* Run r of job j is the one that the step just taken continued, from `pc`,
\* with the awaited call settling as `out`.
Stepped(j, r, pc, out) ==
  /\ last'.op = "step" /\ last'.job = j /\ last'.out = out
  /\ jobs[j].runs[r].pc = pc
  /\ jobs'[j].runs[r] # jobs[j].runs[r]

Logged(es, text) ==
  { i \in 1..Len(es) : es[i].type = "log" /\ es[i].arg = text }

\* An exception of action(i) in run r of job j is handled as a false result
\* is: nothing is thrown, the job keeps its state, the run goes on to the
\* delay or the reload that precede the next test of the attempt bound, with
\* the same counters a false result leaves.
ThrowLikeFalse(j, r) ==
  /\ last'.err = ""
  /\ jobs'[j].state = jobs[j].state
  /\ jobs'[j].runs[r].pc \in {"sleep", "reload"}
  /\ jobs'[j].runs[r] =
       [resume(World, j, r, "falsy").jobs[j].runs[r] EXCEPT !.allFalse = FALSE]

\* C26, as claimed: every exception thrown by action is logged and handled as
\* a false result is.
C26_ThrowAlwaysLogged ==
  [][\A j \in Ids : \A r \in Runs(j) :
       Stepped(j, r, "action", "throw")
         => /\ Cardinality(Logged(last'.emitted, "action() failed")) = 1
            /\ ThrowLikeFalse(j, r)]_vars

\* C26, amended: an exception thrown by action is handled as a false result
\* is, and it is logged unless the job is stopped when it is caught.
C26_ThrowIsFailedAttempt ==
  [][\A j \in Ids : \A r \in Runs(j) :
       Stepped(j, r, "action", "throw")
         => /\ Cardinality(Logged(last'.emitted, "action() failed")) =
                 (IF stopped(World, j) THEN 0 ELSE 1)
            /\ ThrowLikeFalse(j, r)]_vars

C26_Witness ==
  \E j \in Ids : \E r \in Runs(j) :
    /\ last.op = "step" /\ last.out = "throw" /\ last.job = j
    /\ Logged(last.emitted, "action() failed") # {}
    /\ jobs[j].state = "running"
    /\ jobs[j].runs[r].pc = "reload"
    /\ jobs[j].runs[r].args = <<0, 1>>

\* Run r of job j has just reached the end of start().
Ended(j, r) == jobs[j].runs[r].pc # "end" /\ jobs'[j].runs[r].pc = "end"

\* What holds of a run whose launch failed, apart from the state it ends in:
\* the failure is logged, the run is in finish at once, and it never invokes
\* setup, action or finalize nor reloads a page.
LaunchFailureFinishes(j, r) ==
  /\ Stepped(j, r, "launch", "fail")
       => /\ Logged(last'.emitted, "Failed to launch browser") # {}
          /\ jobs'[j].runs[r].failed = "launch"
          /\ jobs'[j].runs[r].pc \in {"close", "end"}
  /\ jobs'[j].runs[r].failed = "launch"
       => /\ jobs'[j].runs[r].setups = 0 /\ jobs'[j].runs[r].acts = 0
          /\ jobs'[j].runs[r].finals = 0 /\ jobs'[j].runs[r].reloads = 0
          /\ jobs'[j].runs[r].pc \in {"close", "end", "rejected"}

\* C27, as claimed: a run whose launch failed is as LaunchFailureFinishes says
\* and leaves the job in state done.
C27_LaunchFailureDone ==
  [][\A j \in Ids : \A r \in Runs(j) :
       /\ LaunchFailureFinishes(j, r)
       /\ (Ended(j, r) /\ jobs'[j].runs[r].failed = "launch")
            => jobs'[j].state = "done"]_vars

\* finish leaves a running job done and any other job in the state it has.
DoneIfRunning(j) ==
  /\ jobs[j].state = "running" => jobs'[j].state = "done"
  /\ jobs[j].state # "running" => jobs'[j].state = jobs[j].state

\* C27, amended: a run whose launch failed is as LaunchFailureFinishes says and
\* leaves the job in state done, unless the job is no longer running by then
\* (stop() was called during the launch): then its state stays as it is.
C27_LaunchFailureFinish ==
  [][\A j \in Ids : \A r \in Runs(j) :
       /\ LaunchFailureFinishes(j, r)
       /\ (Ended(j, r) /\ jobs'[j].runs[r].failed = "launch")
            => DoneIfRunning(j)]_vars

C27_Witness ==
  \E j \in Ids : \E r \in Runs(j) :
    /\ last.op = "step" /\ last.out = "fail" /\ last.job = j
    /\ jobs[j].runs[r].failed = "launch" /\ jobs[j].runs[r].pc = "end"
    /\ jobs[j].state = "done"
    /\ jobs[j].cfg.attempts = MaxAttempts

\* Run r of job j has just settled: start() returned or rejected.
JustSettled(j, r) == ~Settled(jobs[j].runs[r]) /\ Settled(jobs'[j].runs[r])

\* C28: setup is invoked at most once per run and before any action; when it
\* throws, the failure is logged, the run invokes neither action nor finalize
\* and goes to finish; and when the run is over the session is closed and the
\* job, if it was still running (not stopped meanwhile), is done.
C28_SetupFailureDone ==
  [][\A j \in Ids : \A r \in Runs(j) :
       LET run  == jobs[j].runs[r]
           run2 == jobs'[j].runs[r]
       IN  /\ run2.setups <= 1
           /\ run2.acts >= 1 => (run2.setups = 1 /\ run2.pc # "setup")
           /\ Stepped(j, r, "setup", "fail")
                => /\ Logged(last'.emitted, "setup() failed") # {}
                   /\ run2.pc = "close" /\ run2.closing = jobs[j].browser
           /\ run2.failed = "setup" => (run2.acts = 0 /\ run2.finals = 0)
           /\ (JustSettled(j, r) /\ run.failed = "setup")
                => /\ jobs'[j].sessions[run.closing] = "closed"
                   /\ jobs[j].state = "running" => jobs'[j].state = "done"]_vars

\* Run r of job j leaves the for loop in this step: the test of the loop fails
\* or action returned truthy, and start() goes on at clearTimeout.
LeavesLoop(j, r) ==
  ~PastLoop(jobs[j].runs[r]) /\ PastLoop(jobs'[j].runs[r])

\* C29: in a run whose launch and setup succeeded, finalize is invoked once
\* when the loop ends and no stop() was accepted, and not at all when a stop()
\* was accepted during the run (the only run of the job so far); it is invoked
\* after the last action invocation and before the run closes a session.
C29_FinalizeOnceUnlessStopped ==
  [][\A j \in Ids : \A r \in Runs(j) :
       LET run  == jobs[j].runs[r]
           run2 == jobs'[j].runs[r]
       IN  /\ run2.finals <= 1
           /\ (LeavesLoop(j, r) /\ j \notin stopAccepted)
                => run2.finals = 1 /\ run2.pc = "finalize"
           /\ (LeavesLoop(j, r) /\ j \in stopAccepted /\ Len(jobs[j].runs) = 1)
                => run2.finals = 0
           /\ run2.finals # run.finals
                => /\ LeavesLoop(j, r)
                   /\ run.closing = 0 /\ run2.closing = 0
                   /\ run2.setups = 1 /\ run2.failed = ""
           /\ run.finals = 1 => run2.acts = run.acts]_vars


\* C30: when finalize() throws, the failure is logged, nothing is thrown, and
\* the step leaves the job and the run exactly as a successful finalize() would
\* but for the record of the failure: the run is in finish, closing the session
\* the job refers to.
C30_FinalizeFailureCleansUp ==
  [][\A j \in Ids : \A r \in Runs(j) :
       LET run  == jobs[j].runs[r]
           run2 == jobs'[j].runs[r]
           ok   == resume(World, j, r, "ok")
       IN  Stepped(j, r, "finalize", "fail")
             => /\ Logged(last'.emitted, "finalize() failed") # {}
                /\ last'.err = ""
                /\ run2.failed = "finalize"
                /\ jobs' = [ok.jobs EXCEPT ![j].runs[r].failed = "finalize"]
                /\ registry' = ok.registry
                /\ run2.pc = "close" /\ run2.closing = jobs[j].browser]_vars

\* A run whose finalize threw has closed its session and left the job done.
C30_Witness ==
  \E j \in Ids : \E r \in Runs(j) :
    /\ jobs[j].runs[r].failed = "finalize" /\ jobs[j].runs[r].pc = "end"
    /\ jobs[j].runs[r].acts = MaxAttempts
    /\ jobs[j].sessions[jobs[j].runs[r].closing] = "closed"
    /\ jobs[j].state = "done"

\* No run of job j is in progress: every start() called on it has returned or
\* rejected.  From then on nothing closes a session of the job.
NoRunInProgress(j) ==
  \A r \in Runs(j) : Settled(jobs[j].runs[r])

\* C31: every session a job launched is closed by the time its run is over,
\* whatever the path of the run: once no run of the job is in progress, none
\* of its sessions is open.
C31_SessionsClosed ==
  \A j \in Ids :
    NoRunInProgress(j)
      => \A s \in 1..Len(jobs[j].sessions) : jobs[j].sessions[s] = "closed"

\* C32: a job refers to a session and to a page only while a run of it is in
\* progress: in every state where the job is not running and none of its runs
\* is in progress (it never started, or finish() has completed in each run),
\* `browser` and `page` are unset.
C32_ReferencesOnlyWhileRunning ==
  \A j \in Ids :
    (/\ jobs[j].state # "running"
     /\ \A r \in Runs(j) : jobs[j].runs[r].pc = "end")
      => (jobs[j].browser = 0 /\ jobs[j].page = FALSE)

\* C33: the timeout watchdog is cancelled when the run ends: a run that is over
\* (start() returned or rejected) has no armed watchdog, and no step fires the
\* watchdog of a run that is over.
C33_WatchdogCancelledAtEnd ==
  [][\A j \in Ids : \A r \in Runs(j) :
       LET run  == jobs[j].runs[r]
           run2 == jobs'[j].runs[r]
       IN  /\ Settled(run2) => run2.wd # "armed"
           /\ Settled(run) => run2.wd = run.wd]_vars

Armed(job) == { t \in 1..Len(job.timers) : job.timers[t].st = "armed" }

\* C34: a job has at most one armed start timer; a start timer that fires
\* starts the run (nothing is thrown and the job is running); and an edit with
\* a scheduling.when leaves a scheduled job with one armed timer, for the new
\* instant, and does not move a running, stopped or done job to scheduled.
C34_OneStartTimer ==
  [][\A j \in Ids :
       LET job  == jobs[j]
           job2 == jobs'[j]
           edited == last'.op = "edit" /\ last'.job = j /\ last'.resp = 200
                       /\ job2.cfg.when # NoWhen
       IN  /\ Cardinality(Armed(job2)) <= 1
           /\ \A t \in Armed(job) :
                job2.timers[t].st = "fired"
                  => last'.err = "" /\ job2.state = "running"
           /\ (edited /\ job.state = "scheduled")
                => \E t \in 1..Len(job2.timers) :
                      Armed(job2) = {t} /\ job2.timers[t].at = job2.cfg.when
           /\ (edited /\ job.state \in {"running", "stopped", "done"})
                => job2.state # "scheduled"]_vars

====
